---- MODULE Spec2Model ----
(***************************************************************************)
(* RAG pipeline: the streaming generation stage in its two variants        *)
(* (src/nodes/nodes.py, src/nodes/reactnode.py) and the orchestrator's     *)
(* run_streaming (src/graph_builder/graph_builder.py).                     *)
(*                                                                         *)
(* One behaviour is one invocation: either a direct call of                *)
(* generate_answer_streaming (simple or tool-augmented), consumed by a     *)
(* caller that keeps pulling, or a call of GraphBuilder.run_streaming,     *)
(* which drives the tool-augmented generator (graph_builder.py imports     *)
(* RAGNodes from src.nodes.reactnode).  A step is the work done between    *)
(* two points where the code can suspend or receive a backend item.        *)
(*                                                                         *)
(* Further entries are the blocking stages (retrieve_docs,                 *)
(* generate_answer), GraphBuilder.run, and the retriever tool of the        *)
(* reasoning loop.  ConcSpec is a second specification: two calls on one    *)
(* GraphBuilder, interleaved at the accesses of its lazily initialised      *)
(* fields.                                                                  *)
(*                                                                         *)
(* Text is modelled by TLA+ strings with \o as Python's +.  An optional    *)
(* value is a sequence of length 0 (None) or 1.                            *)
(***************************************************************************)
EXTENDS Integers, Sequences, FiniteSets, TLC

VARIABLES
    entry,                  \* which call this behaviour is: "simple", "tool", "run_streaming"
    question,               \* the caller's question
    rs_pc,                  \* run_streaming: position
    events,                 \* run_streaming: the events yielded so far
    state_after_retrieval,  \* run_streaming: local, optional
    rs_final_state,         \* run_streaming: local final_state, optional
    propagated,             \* optional: details of an exception that reached the caller
    gen_pc,                 \* generate_answer_streaming: position
    gen_state,              \* generate_answer_streaming: its state argument, optional
    received,               \* the backend items the generator has consumed so far
    full_answer,            \* generate_answer_streaming: local full_answer
    error_msg,              \* generate_answer_streaming: local error_msg
    yielded,                \* the fragments the generator has yielded so far
    returned,               \* the generator's return values (StopIteration.value)
    failure,                \* optional: details of the exception the backend raised
    invoke_result,          \* optional: what the fallback agent.invoke returned
    calls,                  \* the collaborator calls made so far
    agent,                  \* RAGNodes._agent: "None" or "built"
    graph,                  \* GraphBuilder.graph: "None" or "built"
    pulls,                  \* the next() calls the caller has made on the sequence
    blk_in,                 \* blocking stage: its state argument, optional
    blk_out,                \* blocking stage / run: the state returned, optional
    tool_docs,              \* retriever tool: what retriever.invoke returned, optional
    tool_result,            \* retriever tool: the text returned, optional
    c_kind,                 \* ConcSpec: per call, "run" or "run_streaming"
    c_pc,                   \* ConcSpec: per call, position
    c_wrote,                \* ConcSpec: per field, the call that assigned it last (0: none)
    c_used                  \* ConcSpec: per call, whose agent (first use, fallback) and graph it used (0: none)

vars == <<entry, question, rs_pc, events, state_after_retrieval, rs_final_state,
          propagated, gen_pc, gen_state, received, full_answer, error_msg,
          yielded, returned, failure, invoke_result, calls, agent,
          graph, pulls, blk_in, blk_out, tool_docs, tool_result,
          c_kind, c_pc, c_wrote, c_used>>

rs_vars == <<rs_pc, events, state_after_retrieval, rs_final_state, propagated>>

\* the state of the blocking stages, of run and of the retriever tool
blk_vars == <<graph, blk_in, blk_out, tool_docs, tool_result>>

\* the state of the two interleaved calls of ConcSpec
conc_vars == <<c_kind, c_pc, c_wrote, c_used>>

----------------------------------------------------------------------------
(* Bounds and input domains *)

\* the longest backend stream explored (items before it ends or raises)
MaxChunks == 3

None == <<>>

Some(x) == <<x>>

Questions == {"Q", "Why?"}

\* a retrieved passage: page_content and metadata
Doc(body, title) == [page_content |-> body, metadata |-> [title |-> title]]

\* what retriever.invoke may return
DocLists == { <<>>, <<Doc("alpha", "T1")>>, <<Doc("alpha", "T1"), Doc("beta", "")>> }

\* str(e) of an exception a collaborator raises
ErrDetails == {"boom", ""}

\* a chunk of llm.stream: an object with optional content / text attributes,
\* or a bare str
Chunk(hc, c, ht, t, is, s) ==
    [has_content |-> hc, content |-> c, has_text |-> ht, text |-> t,
     is_str |-> is, str |-> s]

SimpleChunks ==
    { Chunk(TRUE, "He", FALSE, "", FALSE, ""),
      Chunk(TRUE, "llo", FALSE, "", FALSE, ""),
      Chunk(TRUE, "", TRUE, "lo", FALSE, ""),
      Chunk(TRUE, "", FALSE, "", FALSE, ""),
      Chunk(FALSE, "", FALSE, "", TRUE, "p"),
      Chunk(FALSE, "", FALSE, "", TRUE, "") }

\* a message of the reasoning loop: optional content attribute, optional
\* response_metadata with its finish_reason ("" when it has none)
Msg(hc, c, hm, fr) ==
    [has_content |-> hc, content |-> c, has_meta |-> hm, finish_reason |-> fr]

\* an event of agent.stream, or the result of agent.invoke: a dict that may
\* hold a 'messages' list
Dict(hm, ms) == [has_messages |-> hm, messages |-> ms]

ToolEvents ==
    { Dict(FALSE, <<>>),
      Dict(TRUE, <<>>),
      Dict(TRUE, <<Msg(TRUE, "A", TRUE, "")>>),
      Dict(TRUE, <<Msg(TRUE, "A", FALSE, ""), Msg(TRUE, "AB", TRUE, "stop")>>),
      Dict(TRUE, <<Msg(TRUE, "B", FALSE, "")>>),
      Dict(TRUE, <<Msg(TRUE, "A", TRUE, ""), Msg(TRUE, "", TRUE, "stop")>>),
      Dict(TRUE, <<Msg(FALSE, "", FALSE, "")>>) }

InvokeResults ==
    { Dict(FALSE, <<>>),
      Dict(TRUE, <<>>),
      Dict(TRUE, <<Msg(TRUE, "Q?", FALSE, ""), Msg(TRUE, "Z", TRUE, "stop")>>),
      Dict(TRUE, <<Msg(TRUE, "", TRUE, "stop")>>),
      Dict(TRUE, <<Msg(FALSE, "", FALSE, "")>>) }

----------------------------------------------------------------------------
(* State and pure helpers *)

\* RAGState(question=..., retrieved_docs=..., answer=...); answer is optional
RAGState(q, d, a) == [question |-> q, retrieved_docs |-> d, answer |-> a]

Last(s) == s[Len(s)]

\* "\n\n".join(parts)
RECURSIVE Join(_)
Join(parts) ==
    IF Len(parts) = 0 THEN ""
    ELSE IF Len(parts) = 1 THEN parts[1]
    ELSE parts[1] \o "\n\n" \o Join(Tail(parts))

Context(docs) == Join([i \in 1..Len(docs) |-> docs[i].page_content])

Prompt(state) ==
    "Answer the question based on the context.\n\nContext:\n"
        \o Context(state.retrieved_docs) \o "\n\nQuestion: " \o state.question

Call(op, arg) == [op |-> op, arg |-> arg]

----------------------------------------------------------------------------
(* run_streaming: event shapes and the body of its for loop *)

Event(step, content, state) == [step |-> step, content |-> content, state |-> state]

\* "Found {len(docs)} relevant documents"
FoundMsg(docs) ==
    "Found " \o ToString(Len(docs)) \o " relevant documents"

\* variant: the event's state is updated with the fragment as its answer
GeneratingStateWithAnswer(sar, chunk) == Some([sar EXCEPT !.answer = Some(chunk)])

\* the state a per-fragment generating event carries
GeneratingState(sar, chunk) == Some(sar)

GeneratingEvent(sar, chunk) == Event("generating", chunk, GeneratingState(sar, chunk))

CompleteEvent(fs) == Event("complete", fs.answer[1], Some(fs))

\* one iteration of `for answer_chunk in generate_answer_streaming(...)`:
\* a str is re-wrapped into a generating event, anything else is kept as
\* final_state.  The loop iterates over the values the generator yields;
\* the generator's return value is not among them.
LoopBody(acc, item) ==
    IF item \in STRING
    THEN [evs |-> Append(acc.evs, GeneratingEvent(state_after_retrieval[1], item)),
          fs  |-> acc.fs]
    ELSE [evs |-> acc.evs, fs |-> Some(item)]

RECURSIVE Loop(_, _)
Loop(acc, items) ==
    IF items = <<>> THEN acc ELSE Loop(LoopBody(acc, Head(items)), Tail(items))

\* after the loop: `if final_state: yield complete`
AfterLoop(fs) == IF fs # None THEN <<CompleteEvent(fs[1])>> ELSE <<>>

\* variant: the stage sets the answer on its argument and returns that object
ArgMutatedByCall(state, result) == result

\* The state argument of a stage after the call that returned `result`: the
\* stages build a new RAGState and assign nothing to their argument.
ArgAfterCall(state, result) == state

\* the caller's sequence is suspended at a yield (or not started): every
\* pull so far has delivered its item
Suspended ==
    pulls = IF entry = "run_streaming" THEN Len(events) ELSE Len(yielded)

\* a step taken from a suspended sequence is the caller's next pull
PullsNext == IF Suspended THEN pulls + 1 ELSE pulls

\* The generator yields `out` (zero or one fragment) and, when `ret` is not
\* None, then finishes returning ret[1].  A direct caller collects both;
\* run_streaming passes the fragments through its loop and, once the
\* generator is exhausted, leaves the loop; nothing follows the code after
\* the loop, so the event sequence is finished ("done") with it.
Deliver(out, ret) ==
    /\ yielded' = yielded \o out
    /\ returned' = returned \o ret
    /\ gen_state' = IF ret # None THEN Some(ArgAfterCall(gen_state[1], ret[1]))
                    ELSE gen_state
    /\ pulls' = PullsNext
    /\ UNCHANGED <<blk_vars, conc_vars>>
    /\ IF entry = "run_streaming"
       THEN LET r == Loop([evs |-> <<>>, fs |-> rs_final_state], out) IN
            /\ rs_final_state' = r.fs
            /\ events' = events \o r.evs \o (IF ret # None THEN AfterLoop(r.fs) ELSE <<>>)
            /\ rs_pc' = IF ret = None THEN "loop" ELSE "done"
            /\ UNCHANGED <<state_after_retrieval, propagated>>
       ELSE UNCHANGED rs_vars

\* the generator may run: a direct caller pulls it, or run_streaming's loop does
GenRuns(mode) ==
    \/ entry = mode
    \/ mode = "tool" /\ entry = "run_streaming" /\ rs_pc = "loop"

\* variant: the returned state is built without the answer argument
FinalStateKeepsInputAnswer(state, answer) ==
    RAGState(state.question, state.retrieved_docs, state.answer)

\* the return statement of generate_answer_streaming
FinalState(state, answer) ==
    RAGState(state.question, state.retrieved_docs, Some(answer))

----------------------------------------------------------------------------
(* Simple mode: nodes.py, RAGNodes.generate_answer_streaming *)

\* the chunk passes one of the three tests of the loop body
ChunkTaken(c) ==
    \/ c.has_content /\ c.content # ""
    \/ c.has_text /\ c.text # ""
    \/ c.is_str

\* the text the loop body takes from the chunk
ChunkFragment(c) ==
    IF c.has_content /\ c.content # "" THEN c.content
    ELSE IF c.has_text /\ c.text # "" THEN c.text
    ELSE c.str

\* variant: the fragment is put in front of the running answer
SimpleAccumulatePrepend(full, c) ==
    IF ChunkTaken(c) THEN ChunkFragment(c) \o full ELSE full

\* full_answer += ...
SimpleAccumulate(full, c) ==
    IF ChunkTaken(c) THEN full \o ChunkFragment(c) ELSE full

\* variant: the delta is yielded instead of the running answer
SimpleYieldDelta(full, c) ==
    IF ChunkTaken(c) THEN <<ChunkFragment(c)>> ELSE <<>>

\* yield full_answer (the value after the += of the same iteration)
SimpleYield(full, c) ==
    IF ChunkTaken(c) THEN <<SimpleAccumulate(full, c)>> ELSE <<>>

ErrorMsgSimple(details) == "Error during streaming: " \o details

\* variant: the assignment full_answer = error_msg is missing
SimpleAnswerKeepsPartial(full, err) == full

\* full_answer = error_msg, after the error fragment was yielded
SimpleAnswerAfterError(full, err) == err

\* the first pull calls llm.stream(prompt)
SimpleStartCalls ==
    IF gen_pc = "idle"
    THEN Append(calls, Call("llm.stream", Prompt(gen_state[1])))
    ELSE calls

SimpleStart == calls' = SimpleStartCalls

\* the backend stream delivers one more chunk
SimpleChunk ==
    /\ GenRuns("simple")
    /\ gen_pc \in {"idle", "streaming"}
    /\ Len(received) < MaxChunks
    /\ \E c \in SimpleChunks :
          /\ received' = Append(received, c)
          /\ full_answer' = SimpleAccumulate(full_answer, c)
          /\ Deliver(SimpleYield(full_answer, c), None)
    /\ gen_pc' = "streaming"
    /\ SimpleStart
    /\ UNCHANGED <<entry, question, error_msg, failure, invoke_result, agent>>

\* llm.stream, or the iteration over it, raises: the except branch yields
\* the error fragment
SimpleRaise ==
    /\ GenRuns("simple")
    /\ gen_pc \in {"idle", "streaming"}
    /\ \E d \in ErrDetails :
          /\ failure' = Some(d)
          /\ error_msg' = ErrorMsgSimple(d)
          /\ Deliver(<<ErrorMsgSimple(d)>>, None)
    /\ gen_pc' = "error_yielded"
    /\ SimpleStart
    /\ UNCHANGED <<entry, question, received, full_answer, invoke_result, agent>>

\* resumed after the error fragment: full_answer = error_msg; return
SimpleAfterError ==
    /\ GenRuns("simple")
    /\ gen_pc = "error_yielded"
    /\ full_answer' = SimpleAnswerAfterError(full_answer, error_msg)
    /\ Deliver(<<>>, Some(FinalState(gen_state[1], full_answer')))
    /\ gen_pc' = "done"
    /\ UNCHANGED <<entry, question, received, error_msg, failure,
                   invoke_result, calls, agent>>

\* the backend stream ends: return
SimpleEnd ==
    /\ GenRuns("simple")
    /\ gen_pc \in {"idle", "streaming"}
    /\ Deliver(<<>>, Some(FinalState(gen_state[1], full_answer)))
    /\ gen_pc' = "done"
    /\ SimpleStart
    /\ UNCHANGED <<entry, question, received, full_answer, error_msg,
                   failure, invoke_result, agent>>

----------------------------------------------------------------------------
(* Tool-augmented mode: reactnode.py, RAGNodes.generate_answer_streaming *)

Messages(d) == IF d.has_messages THEN d.messages ELSE <<>>

\* 'messages' in chunk and chunk['messages'], and the latest message has
\* non-empty content
EventTaken(e) ==
    /\ e.has_messages
    /\ e.messages # <<>>
    /\ Last(e.messages).has_content
    /\ Last(e.messages).content # ""

\* response_metadata.get('finish_reason') is set
IsFinal(m) == m.has_meta /\ m.finish_reason # ""

\* variant: the content is appended as in simple mode
ToolAccumulateAppend(full, e) ==
    IF EventTaken(e) THEN full \o Last(e.messages).content ELSE full

\* variant: the assignment that follows the yield of a partial message is
\* missing
ToolResumeNoAssign(full, recv) == full

\* the generator is resumed: when it was suspended at the yield of a partial
\* message (content, no finish_reason), full_answer = latest_message.content
\* runs now; full is the value full_answer had at the suspension
ToolResume(full, recv) ==
    IF /\ recv # <<>>
       /\ EventTaken(Last(recv))
       /\ ~IsFinal(Last(Last(recv).messages))
    THEN Last(Last(recv).messages).content
    ELSE full

\* full_answer when the loop body has run up to its yield, or to its end:
\* a final message is assigned before it is yielded, a partial message is
\* yielded first, full being the value the body found
ToolAccumulate(full, e) ==
    IF EventTaken(e) /\ IsFinal(Last(e.messages))
    THEN Last(e.messages).content
    ELSE full

\* yield full_answer (final message) or yield latest_message.content
ToolYield(full, e) ==
    IF EventTaken(e)
    THEN IF IsFinal(Last(e.messages))
         THEN <<ToolAccumulate(full, e)>>
         ELSE <<Last(e.messages).content>>
    ELSE <<>>

\* getattr(answer_msg, "content", "Could not generate answer.")
FallbackContent(m) == IF m.has_content THEN m.content ELSE "Could not generate answer."

\* full_answer after the fallback invoke returned r
FallbackAnswer(full, r) ==
    IF Messages(r) # <<>> THEN FallbackContent(Last(Messages(r))) ELSE full

\* the fragment the fallback yields: only inside `if messages:`
FallbackYield(full, r) ==
    IF Messages(r) # <<>> THEN <<FallbackAnswer(full, r)>> ELSE <<>>

ErrorMsgTool(details) == "Error generating answer: " \o details

\* variant: the except branch returns the state with full_answer
ToolAnswerKeepsPartial(full, err) == full

\* the answer of the state returned in the except branch
ToolAnswerAfterError(full, err) == err

\* the first pull builds the agent if need be and calls agent.stream
ToolStartCalls ==
    IF gen_pc = "idle"
    THEN Append(calls, Call("agent.stream", gen_state[1].question))
    ELSE calls

ToolStart ==
    /\ agent' = "built"
    /\ calls' = ToolStartCalls

\* the fallback's agent.invoke follows the stream call
FallbackCalls == Append(ToolStartCalls, Call("agent.invoke", gen_state[1].question))

\* the reasoning loop's stream delivers one more event
ToolEvent ==
    /\ GenRuns("tool")
    /\ gen_pc \in {"idle", "streaming"}
    /\ Len(received) < MaxChunks
    /\ \E e \in ToolEvents :
          /\ received' = Append(received, e)
          /\ full_answer' = ToolAccumulate(ToolResume(full_answer, received), e)
          /\ Deliver(ToolYield(ToolResume(full_answer, received), e), None)
    /\ gen_pc' = "streaming"
    /\ ToolStart
    /\ UNCHANGED <<entry, question, error_msg, failure, invoke_result>>

\* agent.stream, or the iteration over it, raises: the except branch yields
\* the error fragment
ToolRaise ==
    /\ GenRuns("tool")
    /\ gen_pc \in {"idle", "streaming"}
    /\ \E d \in ErrDetails :
          /\ failure' = Some(d)
          /\ error_msg' = ErrorMsgTool(d)
          /\ Deliver(<<ErrorMsgTool(d)>>, None)
    /\ full_answer' = ToolResume(full_answer, received)
    /\ gen_pc' = "error_yielded"
    /\ ToolStart
    /\ UNCHANGED <<entry, question, received, invoke_result>>

\* the stream ends with a non-empty full_answer: return
ToolEnd ==
    /\ GenRuns("tool")
    /\ gen_pc \in {"idle", "streaming"}
    /\ ToolResume(full_answer, received) # ""
    /\ full_answer' = ToolResume(full_answer, received)
    /\ Deliver(<<>>, Some(FinalState(gen_state[1], full_answer')))
    /\ gen_pc' = "done"
    /\ ToolStart
    /\ UNCHANGED <<entry, question, received, error_msg,
                   failure, invoke_result>>

\* the stream ends with an empty full_answer: fall back to agent.invoke,
\* which returns r.  With messages the content is yielded; without, the
\* generator returns at once.
ToolFallback ==
    /\ GenRuns("tool")
    /\ gen_pc \in {"idle", "streaming"}
    /\ ToolResume(full_answer, received) = ""
    /\ agent' = "built"
    /\ calls' = FallbackCalls
    /\ \E r \in InvokeResults :
          /\ invoke_result' = Some(r)
          /\ full_answer' = FallbackAnswer(full_answer, r)
          /\ IF FallbackYield(full_answer, r) # <<>>
             THEN /\ Deliver(FallbackYield(full_answer, r), None)
                  /\ gen_pc' = "fallback_yielded"
             ELSE /\ Deliver(<<>>, Some(FinalState(gen_state[1], full_answer')))
                  /\ gen_pc' = "done"
    /\ UNCHANGED <<entry, question, received, error_msg, failure>>

\* the stream ends with an empty full_answer and the fallback agent.invoke
\* raises: the except branch yields the error fragment
ToolFallbackRaise ==
    /\ GenRuns("tool")
    /\ gen_pc \in {"idle", "streaming"}
    /\ ToolResume(full_answer, received) = ""
    /\ agent' = "built"
    /\ calls' = FallbackCalls
    /\ \E d \in ErrDetails :
          /\ failure' = Some(d)
          /\ error_msg' = ErrorMsgTool(d)
          /\ Deliver(<<ErrorMsgTool(d)>>, None)
    /\ gen_pc' = "error_yielded"
    /\ UNCHANGED <<entry, question, received, full_answer, invoke_result>>

\* resumed after the fallback's fragment: return
ToolAfterFallback ==
    /\ GenRuns("tool")
    /\ gen_pc = "fallback_yielded"
    /\ Deliver(<<>>, Some(FinalState(gen_state[1], full_answer)))
    /\ gen_pc' = "done"
    /\ UNCHANGED <<entry, question, received, full_answer, error_msg,
                   failure, invoke_result, calls, agent>>

\* variant: after the error fragment the blocking invoke is tried once more
ToolAfterErrorRetry ==
    /\ GenRuns("tool")
    /\ gen_pc = "error_yielded"
    /\ calls' = Append(calls, Call("agent.invoke", gen_state[1].question))
    /\ Deliver(<<>>, Some(FinalState(gen_state[1],
                                     ToolAnswerAfterError(full_answer, error_msg))))
    /\ gen_pc' = "done"
    /\ UNCHANGED <<entry, question, received, full_answer, error_msg,
                   failure, invoke_result, agent>>

\* resumed after the error fragment: return the error-bearing state
ToolAfterError ==
    /\ GenRuns("tool")
    /\ gen_pc = "error_yielded"
    /\ Deliver(<<>>, Some(FinalState(gen_state[1],
                                     ToolAnswerAfterError(full_answer, error_msg))))
    /\ gen_pc' = "done"
    /\ UNCHANGED <<entry, question, received, full_answer, error_msg,
                   failure, invoke_result, calls, agent>>

----------------------------------------------------------------------------
(* GraphBuilder.run_streaming *)

gen_vars == <<gen_pc, gen_state, received, full_answer, error_msg, yielded,
              returned, failure, invoke_result, agent>>

\* variant: the retrieval is done before the first event is yielded
RsFirstEager ==
    /\ entry = "run_streaming"
    /\ rs_pc = "start"
    /\ calls' = Append(calls, Call("retriever.invoke", question))
    /\ events' = Append(events, Event("retrieving", "Retrieving relevant documents...", None))
    /\ rs_pc' = "ev1"
    /\ UNCHANGED <<entry, question, state_after_retrieval, rs_final_state, propagated>>
    /\ UNCHANGED gen_vars
    /\ pulls' = pulls + 1
    /\ UNCHANGED <<blk_vars, conc_vars>>

\* first pull: the first retrieving event, state None
RsFirst ==
    /\ entry = "run_streaming"
    /\ rs_pc = "start"
    /\ events' = Append(events, Event("retrieving", "Retrieving relevant documents...", None))
    /\ rs_pc' = "ev1"
    /\ UNCHANGED <<entry, question, state_after_retrieval, rs_final_state, propagated,
                   calls>>
    /\ UNCHANGED gen_vars
    /\ pulls' = pulls + 1
    /\ UNCHANGED <<blk_vars, conc_vars>>

\* variant: the retriever is queried once for the count and once for the state
RsRetrieveTwice ==
    /\ entry = "run_streaming"
    /\ rs_pc = "ev1"
    /\ calls' = calls \o << Call("retriever.invoke", question),
                            Call("retriever.invoke", question) >>
    /\ \E docs \in DocLists :
          /\ state_after_retrieval' = Some(RAGState(question, docs, None))
          /\ events' = Append(events,
                 Event("retrieving", FoundMsg(docs), state_after_retrieval'))
    /\ rs_pc' = "ev2"
    /\ UNCHANGED <<entry, question, rs_final_state, propagated>>
    /\ UNCHANGED gen_vars
    /\ pulls' = pulls + 1
    /\ UNCHANGED <<blk_vars, conc_vars>>

\* second pull: retriever.invoke(question) returns docs; second retrieving event
RsRetrieve ==
    /\ entry = "run_streaming"
    /\ rs_pc = "ev1"
    /\ calls' = Append(calls, Call("retriever.invoke", question))
    /\ \E docs \in DocLists :
          /\ state_after_retrieval' = Some(RAGState(question, docs, None))
          /\ events' = Append(events,
                 Event("retrieving", FoundMsg(docs), state_after_retrieval'))
    /\ rs_pc' = "ev2"
    /\ UNCHANGED <<entry, question, rs_final_state, propagated>>
    /\ UNCHANGED gen_vars
    /\ pulls' = pulls + 1
    /\ UNCHANGED <<blk_vars, conc_vars>>

\* variant: the failure is reported as an event before it is raised again
RsRetrieveRaiseReported ==
    /\ entry = "run_streaming"
    /\ rs_pc = "ev1"
    /\ calls' = Append(calls, Call("retriever.invoke", question))
    /\ \E d \in ErrDetails :
          /\ propagated' = Some(d)
          /\ events' = Append(events, Event("retrieving", "Error: " \o d, None))
    /\ rs_pc' = "raised"
    /\ UNCHANGED <<entry, question, state_after_retrieval, rs_final_state>>
    /\ UNCHANGED gen_vars
    /\ pulls' = pulls + 1
    /\ UNCHANGED <<blk_vars, conc_vars>>

\* second pull: retriever.invoke raises; nothing catches it
RsRetrieveRaise ==
    /\ entry = "run_streaming"
    /\ rs_pc = "ev1"
    /\ calls' = Append(calls, Call("retriever.invoke", question))
    /\ \E d \in ErrDetails : propagated' = Some(d)
    /\ rs_pc' = "raised"
    /\ UNCHANGED <<entry, question, events, state_after_retrieval, rs_final_state>>
    /\ UNCHANGED gen_vars
    /\ pulls' = pulls + 1
    /\ UNCHANGED <<blk_vars, conc_vars>>

\* third pull: the generating event with empty content
RsGenerating ==
    /\ entry = "run_streaming"
    /\ rs_pc = "ev2"
    /\ events' = Append(events, Event("generating", "", state_after_retrieval))
    /\ rs_pc' = "ev3"
    /\ UNCHANGED <<entry, question, state_after_retrieval, rs_final_state, propagated,
                   calls>>
    /\ UNCHANGED gen_vars
    /\ pulls' = pulls + 1
    /\ UNCHANGED <<blk_vars, conc_vars>>

\* fourth pull, first part: final_state = None and the for statement creates
\* the generator over state_after_retrieval
RsStartGeneration ==
    /\ entry = "run_streaming"
    /\ rs_pc = "ev3"
    /\ rs_final_state' = None
    /\ gen_state' = state_after_retrieval
    /\ gen_pc' = "idle"
    /\ rs_pc' = "loop"
    /\ pulls' = pulls + 1
    /\ UNCHANGED <<entry, question, events, state_after_retrieval, propagated,
                   received, full_answer, error_msg, yielded, returned, failure,
                   invoke_result, calls, agent>>
    /\ UNCHANGED <<blk_vars, conc_vars>>

----------------------------------------------------------------------------
(* Blocking stages: retrieve_docs and generate_answer, called on a state *)

\* the stage calls made on one state in a behaviour
MaxStageCalls == 2

\* response.content of llm.invoke(prompt)
LlmResponses == {"R", ""}

\* retrieve_docs: RAGState(question=state.question, retrieved_docs=docs)
RetrieveDocs(state, docs) == RAGState(state.question, docs, None)

\* nodes.py generate_answer: the state returned for response.content
GenerateAnswerSimple(state, content) ==
    RAGState(state.question, state.retrieved_docs, Some(content))

\* variant: getattr with the sentinel as default, as the streaming fallback has it
BlockingAnswerByDefault(r) ==
    IF Messages(r) # <<>> THEN FallbackContent(Last(Messages(r))) ELSE ""

\* reactnode.py generate_answer: answer or "Could not generate answer.",
\* answer being getattr(messages[-1], "content", None) when there are messages
BlockingAnswer(r) ==
    IF /\ Messages(r) # <<>>
       /\ Last(Messages(r)).has_content
       /\ Last(Messages(r)).content # ""
    THEN Last(Messages(r)).content
    ELSE "Could not generate answer."

\* reactnode.py generate_answer: the state returned for the invoke result r
GenerateAnswerTool(state, r) ==
    RAGState(state.question, state.retrieved_docs, Some(BlockingAnswer(r)))

StageRuns ==
    /\ entry = "stages"
    /\ propagated = None
    /\ Len(calls) < MaxStageCalls

\* retrieve_docs(state) returns
StageRetrieve ==
    /\ StageRuns
    /\ calls' = Append(calls, Call("retriever.invoke", blk_in[1].question))
    /\ \E docs \in DocLists :
          /\ blk_out' = Some(RetrieveDocs(blk_in[1], docs))
          /\ blk_in' = Some(ArgAfterCall(blk_in[1], blk_out'[1]))
    /\ UNCHANGED <<entry, question, rs_vars, gen_pc, gen_state, received, full_answer,
                   error_msg, yielded, returned, failure, invoke_result, agent, graph,
                   pulls, tool_docs, tool_result, conc_vars>>

\* nodes.py generate_answer(state) returns
StageGenerateSimple ==
    /\ StageRuns
    /\ calls' = Append(calls, Call("llm.invoke", Prompt(blk_in[1])))
    /\ \E content \in LlmResponses :
          /\ blk_out' = Some(GenerateAnswerSimple(blk_in[1], content))
          /\ blk_in' = Some(ArgAfterCall(blk_in[1], blk_out'[1]))
    /\ UNCHANGED <<entry, question, rs_vars, gen_pc, gen_state, received, full_answer,
                   error_msg, yielded, returned, failure, invoke_result, agent, graph,
                   pulls, tool_docs, tool_result, conc_vars>>

\* reactnode.py generate_answer(state) returns
StageGenerateTool ==
    /\ StageRuns
    /\ agent' = "built"
    /\ calls' = Append(calls, Call("agent.invoke", blk_in[1].question))
    /\ \E r \in InvokeResults :
          /\ invoke_result' = Some(r)
          /\ blk_out' = Some(GenerateAnswerTool(blk_in[1], r))
          /\ blk_in' = Some(ArgAfterCall(blk_in[1], blk_out'[1]))
    /\ UNCHANGED <<entry, question, rs_vars, gen_pc, gen_state, received, full_answer,
                   error_msg, yielded, returned, failure, graph,
                   pulls, tool_docs, tool_result, conc_vars>>

\* the collaborator of a stage raises: nothing catches it, nothing is returned
StageRaise ==
    /\ StageRuns
    /\ \E c \in { Call("retriever.invoke", blk_in[1].question),
                  Call("llm.invoke", Prompt(blk_in[1])),
                  Call("agent.invoke", blk_in[1].question) } :
          /\ calls' = Append(calls, c)
          /\ agent' = IF c.op = "agent.invoke" THEN "built" ELSE agent
    /\ \E d \in ErrDetails :
          /\ failure' = Some(d)
          /\ propagated' = Some(d)
    /\ UNCHANGED <<entry, question, rs_pc, events, state_after_retrieval, rs_final_state,
                   gen_pc, gen_state, received, full_answer, error_msg, yielded,
                   returned, invoke_result, graph, pulls, blk_in, blk_out,
                   tool_docs, tool_result, conc_vars>>

----------------------------------------------------------------------------
(* GraphBuilder.run: graph.invoke(initial_state), retriever then responder *)

run_frame == <<entry, question, events, rs_final_state, gen_pc, gen_state, received,
               full_answer, error_msg, yielded, returned, pulls, tool_docs,
               tool_result, conc_vars>>

\* if self.graph is None: self.build(); initial_state = RAGState(question=question)
RunStart ==
    /\ entry = "run"
    /\ rs_pc = "start"
    /\ graph' = "built"
    /\ blk_in' = Some(RAGState(question, <<>>, None))
    /\ rs_pc' = "retriever"
    /\ UNCHANGED run_frame
    /\ UNCHANGED <<state_after_retrieval, propagated, failure, invoke_result, calls,
                   agent, blk_out>>

\* node "retriever": retrieve_docs(initial_state)
RunRetrieve ==
    /\ entry = "run"
    /\ rs_pc = "retriever"
    /\ calls' = Append(calls, Call("retriever.invoke", blk_in[1].question))
    /\ \E docs \in DocLists :
          /\ state_after_retrieval' = Some(RetrieveDocs(blk_in[1], docs))
          /\ blk_in' = Some(ArgAfterCall(blk_in[1], state_after_retrieval'[1]))
    /\ rs_pc' = "responder"
    /\ UNCHANGED run_frame
    /\ UNCHANGED <<propagated, failure, invoke_result, agent, graph, blk_out>>

\* node "responder": generate_answer(state); its state is the result of run
RunRespond ==
    /\ entry = "run"
    /\ rs_pc = "responder"
    /\ agent' = "built"
    /\ calls' = Append(calls, Call("agent.invoke", state_after_retrieval[1].question))
    /\ \E r \in InvokeResults :
          /\ invoke_result' = Some(r)
          /\ blk_out' = Some(GenerateAnswerTool(state_after_retrieval[1], r))
          /\ state_after_retrieval' =
                Some(ArgAfterCall(state_after_retrieval[1], blk_out'[1]))
    /\ rs_pc' = "done"
    /\ UNCHANGED run_frame
    /\ UNCHANGED <<propagated, failure, graph, blk_in>>

\* the collaborator of the current node raises: run propagates it
RunRaise ==
    /\ entry = "run"
    /\ rs_pc \in {"retriever", "responder"}
    /\ IF rs_pc = "retriever"
       THEN /\ calls' = Append(calls, Call("retriever.invoke", blk_in[1].question))
            /\ agent' = agent
       ELSE /\ calls' = Append(calls, Call("agent.invoke", state_after_retrieval[1].question))
            /\ agent' = "built"
    /\ \E d \in ErrDetails :
          /\ failure' = Some(d)
          /\ propagated' = Some(d)
    /\ rs_pc' = "raised"
    /\ UNCHANGED run_frame
    /\ UNCHANGED <<state_after_retrieval, invoke_result, graph, blk_in, blk_out>>

----------------------------------------------------------------------------
(* reactnode.py: the retrieval-search tool handed to the reasoning loop *)

\* docs[:8]
ToolPassageLimit == 8

\* the longest passage list the retriever hands to the tool
MaxToolDocs == 9

\* a passage as the tool sees it: page_content, whether it has a metadata
\* attribute, and the title and source entries of the metadata ("" when the
\* key is missing or its value is empty)
TDoc(body, hm, title, source) ==
    [page_content |-> body, has_metadata |-> hm, title |-> title, source |-> source]

ShortDocs ==
    { TDoc("b1", TRUE, "T", ""),
      TDoc("b2", TRUE, "", "S"),
      TDoc("", TRUE, "T", "S"),
      TDoc("b4", TRUE, "", ""),
      TDoc("b5", FALSE, "", "") }

LongDoc(i) ==
    TDoc("b" \o ToString(i), i % 4 # 0,
         IF i % 2 = 1 THEN "T" \o ToString(i) ELSE "",
         IF i % 3 = 0 THEN "S" \o ToString(i) ELSE "")

\* what retriever.invoke(query) may return to the tool
ToolDocLists ==
    {<<>>} \cup { <<d>> : d \in ShortDocs }
           \cup { <<d1, d2>> : d1 \in ShortDocs, d2 \in ShortDocs }
           \cup { [i \in 1..n |-> LongDoc(i)] : n \in 7..MaxToolDocs }

\* meta = d.metadata if hasattr(d, "metadata") else {}
Meta(d) ==
    IF d.has_metadata THEN [title |-> d.title, source |-> d.source]
    ELSE [title |-> "", source |-> ""]

\* title = meta.get("title") or meta.get("source") or f"doc_{i}"
Title(d, i) ==
    IF Meta(d).title # "" THEN Meta(d).title
    ELSE IF Meta(d).source # "" THEN Meta(d).source
    ELSE "doc_" \o ToString(i)

\* variant: every passage is formatted
ToolPassagesAll(docs) == docs

\* docs[:8]
ToolPassages(docs) ==
    SubSeq(docs, 1, IF Len(docs) < ToolPassageLimit THEN Len(docs) ELSE ToolPassageLimit)

\* the list merged: f"[{i}] {title}\n{d.page_content}" for each passage
Merged(docs) ==
    [i \in 1..Len(ToolPassages(docs)) |->
        "[" \o ToString(i) \o "] " \o Title(ToolPassages(docs)[i], i)
            \o "\n" \o ToolPassages(docs)[i].page_content]

\* the value retriever_tool_fn returns for the passages docs
RetrieverToolFn(docs) ==
    IF docs = <<>> THEN "No documents found." ELSE Join(Merged(docs))

tool_frame ==
    <<entry, question, rs_pc, events, state_after_retrieval, rs_final_state,
      gen_pc, gen_state, received, full_answer, error_msg, yielded, returned,
      failure, invoke_result, agent, graph, pulls, blk_in, blk_out, conc_vars>>

\* retriever_tool_fn(query): the retriever answers with docs
RetrieverToolCall ==
    /\ entry = "retriever_tool"
    /\ tool_result = None
    /\ propagated = None
    /\ calls' = Append(calls, Call("retriever.invoke", question))
    /\ \E docs \in ToolDocLists :
          /\ tool_docs' = Some(docs)
          /\ tool_result' = Some(RetrieverToolFn(docs))
    /\ UNCHANGED tool_frame
    /\ UNCHANGED propagated

\* retriever_tool_fn(query): the retriever raises; the tool returns nothing
RetrieverToolRaise ==
    /\ entry = "retriever_tool"
    /\ tool_result = None
    /\ propagated = None
    /\ calls' = Append(calls, Call("retriever.invoke", question))
    /\ \E d \in ErrDetails : propagated' = Some(d)
    /\ UNCHANGED tool_frame
    /\ UNCHANGED <<tool_docs, tool_result>>

----------------------------------------------------------------------------
(* Specification *)

\* the answer field of a state handed to a direct generator call
InputAnswers == {None, Some("old")}

Init ==
    /\ entry \in {"simple", "tool", "run_streaming", "stages", "run", "retriever_tool"}
    /\ question \in Questions
    /\ events = <<>>
    /\ state_after_retrieval = None
    /\ rs_final_state = None
    /\ propagated = None
    /\ received = <<>>
    /\ full_answer = ""
    /\ error_msg = ""
    /\ yielded = <<>>
    /\ returned = <<>>
    /\ failure = None
    /\ invoke_result = None
    /\ calls = <<>>
    /\ agent = "None"
    /\ graph \in (IF entry = "run" THEN {"None", "built"} ELSE {"None"})
    /\ pulls = 0
    /\ blk_out = None
    /\ tool_docs = None
    /\ tool_result = None
    /\ c_kind = <<>>
    /\ c_pc = <<>>
    /\ c_wrote = <<>>
    /\ c_used = <<>>
    /\ CASE entry \in {"run_streaming", "run"} ->
              /\ rs_pc = "start"
              /\ gen_pc = "none"
              /\ gen_state = None
              /\ blk_in = None
         [] entry = "retriever_tool" ->
              /\ rs_pc = "unused"
              /\ gen_pc = "none"
              /\ gen_state = None
              /\ blk_in = None
         [] entry = "stages" ->
              /\ rs_pc = "unused"
              /\ gen_pc = "none"
              /\ gen_state = None
              /\ \E d \in DocLists, a \in InputAnswers :
                    blk_in = Some(RAGState(question, d, a))
         [] OTHER ->
              /\ rs_pc = "unused"
              /\ gen_pc = "idle"
              /\ blk_in = None
              /\ \E d \in DocLists, a \in InputAnswers :
                    gen_state = Some(RAGState(question, d, a))

Next ==
    \/ SimpleChunk
    \/ SimpleRaise
    \/ SimpleAfterError
    \/ SimpleEnd
    \/ ToolEvent
    \/ ToolRaise
    \/ ToolEnd
    \/ ToolFallback
    \/ ToolFallbackRaise
    \/ ToolAfterFallback
    \/ ToolAfterError
    \/ RsFirst
    \/ RsRetrieve
    \/ RsRetrieveRaise
    \/ RsGenerating
    \/ RsStartGeneration
    \/ StageRetrieve
    \/ StageGenerateSimple
    \/ StageGenerateTool
    \/ StageRaise
    \/ RunStart
    \/ RunRetrieve
    \/ RunRespond
    \/ RunRaise
    \/ RetrieverToolCall
    \/ RetrieverToolRaise

Spec == Init /\ [][Next]_vars

\* the caller keeps pulling and the collaborators answer every call
FairSpec == Spec /\ WF_vars(Next)

----------------------------------------------------------------------------
(* Two calls on one GraphBuilder, interleaved at the accesses of the fields *)
(* it initialises lazily: GraphBuilder.graph (run) and RAGNodes._agent      *)
(* (generate_answer, generate_answer_streaming).  The test, the assignment  *)
(* and the use of a field are separate steps of a call.                     *)

\* the calls interleaved
NCalls == 2

CallIds == 1..NCalls

\* the variables the concurrent calls leave alone.  Under ConcSpec the
\* variables of conc_locals hold one value for each call: its locals, what
\* it has yielded and returned, and the collaborator calls it has made.
conc_frame == <<entry, question, rs_pc, rs_final_state, gen_pc, gen_state,
                blk_in, tool_docs, tool_result>>

conc_locals == <<events, pulls, state_after_retrieval, received, full_answer,
                 error_msg, yielded, returned, failure, invoke_result,
                 propagated, blk_out, calls>>

\* the longest reasoning-loop stream of a concurrent call
MaxConcEvents == 1

\* what the reasoning loop streams to and answers the concurrent calls
ConcToolEvents ==
    { Dict(TRUE, <<>>),
      Dict(TRUE, <<Msg(TRUE, "B", FALSE, "")>>) }

ConcInvokeResults ==
    { Dict(TRUE, <<>>),
      Dict(TRUE, <<Msg(TRUE, "Z", TRUE, "stop")>>) }

\* the question the concurrent calls are made with
ConcQuestions == { "Q" }

\* what the retriever answers the concurrent calls
ConcDocLists == { <<Doc("d1", "t1")>> }

\* the details of the exceptions the collaborators raise in concurrent calls
ConcErrDetails == { "boom" }

\* the locals of call c
CL(c) ==
    [events |-> events[c], pulls |-> pulls[c], sar |-> state_after_retrieval[c],
     received |-> received[c], full |-> full_answer[c], err |-> error_msg[c],
     yielded |-> yielded[c], returned |-> returned[c], failure |-> failure[c],
     invoke_result |-> invoke_result[c], propagated |-> propagated[c],
     out |-> blk_out[c], calls |-> calls[c]]

\* call c goes on with the locals l
CPut(c, l) ==
    /\ events' = [events EXCEPT ![c] = l.events]
    /\ pulls' = [pulls EXCEPT ![c] = l.pulls]
    /\ state_after_retrieval' = [state_after_retrieval EXCEPT ![c] = l.sar]
    /\ received' = [received EXCEPT ![c] = l.received]
    /\ full_answer' = [full_answer EXCEPT ![c] = l.full]
    /\ error_msg' = [error_msg EXCEPT ![c] = l.err]
    /\ yielded' = [yielded EXCEPT ![c] = l.yielded]
    /\ returned' = [returned EXCEPT ![c] = l.returned]
    /\ failure' = [failure EXCEPT ![c] = l.failure]
    /\ invoke_result' = [invoke_result EXCEPT ![c] = l.invoke_result]
    /\ propagated' = [propagated EXCEPT ![c] = l.propagated]
    /\ blk_out' = [blk_out EXCEPT ![c] = l.out]
    /\ calls' = [calls EXCEPT ![c] = l.calls]

\* the locals l after the collaborator call op
CCall(l, op) == [l EXCEPT !.calls = Append(@, Call(op, question))]

\* run_streaming of a call yields the event ev: the pull that asked for it
\* is made if the sequence was suspended
CYield(l, ev) ==
    [l EXCEPT !.events = Append(@, ev),
              !.pulls = IF l.pulls = Len(l.events) THEN @ + 1 ELSE @]

\* the generator of a call yields `out` and, when `ret` is not None, then
\* returns ret[1]; run_streaming's loop re-wraps the fragments and ends with
\* the generator, final_state still None
CDeliver(l, out, ret) ==
    [l EXCEPT !.yielded = @ \o out,
              !.returned = @ \o ret,
              !.events = @ \o [i \in 1..Len(out) |-> GeneratingEvent(l.sar[1], out[i])],
              !.pulls = IF l.pulls = Len(l.events) THEN @ + 1 ELSE @]

\* variant: _build_agent returns the agent and leaves self._agent as it was
AgentNotAssigned(a) == a

\* self._agent after _build_agent: self._agent = create_react_agent(...)
AgentAfterBuild(a) == "built"

\* self.graph after build: self.graph = builder.compile()
GraphAfterBuild(g) == "built"

\* run: if self.graph is None
CTestGraph(c) ==
    /\ c_kind[c] = "run"
    /\ c_pc[c] = "start"
    /\ c_pc' = [c_pc EXCEPT ![c] = IF graph = "None" THEN "build_graph" ELSE "graph_invoke"]
    /\ UNCHANGED <<agent, graph, c_kind, c_wrote, c_used>>
    /\ UNCHANGED <<conc_locals, conc_frame>>

\* run: self.build()
CBuildGraph(c) ==
    /\ c_pc[c] = "build_graph"
    /\ graph' = GraphAfterBuild(graph)
    /\ c_wrote' = [c_wrote EXCEPT !.graph = c]
    /\ c_used' = [c_used EXCEPT ![c].built = @ \cup {"graph"}]
    /\ c_pc' = [c_pc EXCEPT ![c] = "graph_invoke"]
    /\ UNCHANGED <<agent, c_kind>>
    /\ UNCHANGED <<conc_locals, conc_frame>>

\* run: self.graph.invoke(initial_state): the retriever node queries the
\* retriever; up to the responder node's test of self._agent
CGraphInvoke(c) ==
    /\ c_pc[c] = "graph_invoke"
    /\ c_used' = [c_used EXCEPT ![c].graph = c_wrote.graph]
    /\ \E docs \in ConcDocLists :
          CPut(c, [CCall(CL(c), "retriever.invoke") EXCEPT !.sar =
                      Some(RetrieveDocs(RAGState(question, <<>>, None), docs))])
    /\ c_pc' = [c_pc EXCEPT ![c] = "test_agent"]
    /\ UNCHANGED <<agent, graph, c_kind, c_wrote>>
    /\ UNCHANGED conc_frame

\* run: self.graph.invoke(initial_state): the retriever raises in the
\* retriever node; run propagates it
CGraphInvokeRaise(c) ==
    /\ c_pc[c] = "graph_invoke"
    /\ c_used' = [c_used EXCEPT ![c].graph = c_wrote.graph]
    /\ \E d \in ConcErrDetails :
          CPut(c, [CCall(CL(c), "retriever.invoke") EXCEPT
                     !.failure = Some(d), !.propagated = Some(d)])
    /\ c_pc' = [c_pc EXCEPT ![c] = "raised"]
    /\ UNCHANGED <<agent, graph, c_kind, c_wrote>>
    /\ UNCHANGED conc_frame

\* run_streaming, first pull: the first retrieving event
CStreamFirst(c) ==
    /\ c_kind[c] = "run_streaming"
    /\ c_pc[c] = "start"
    /\ CPut(c, CYield(CL(c), Event("retrieving", "Retrieving relevant documents...", None)))
    /\ c_pc' = [c_pc EXCEPT ![c] = "ev1"]
    /\ UNCHANGED <<agent, graph, c_kind, c_wrote, c_used>>
    /\ UNCHANGED conc_frame

\* run_streaming, second pull: the retrieval query and the second event
CStreamRetrieve(c) ==
    /\ c_pc[c] = "ev1"
    /\ \E docs \in ConcDocLists :
          CPut(c, CYield([CCall(CL(c), "retriever.invoke") EXCEPT !.sar = Some(RAGState(question, docs, None))],
                         Event("retrieving", FoundMsg(docs),
                               Some(RAGState(question, docs, None)))))
    /\ c_pc' = [c_pc EXCEPT ![c] = "ev2"]
    /\ UNCHANGED <<agent, graph, c_kind, c_wrote, c_used>>
    /\ UNCHANGED conc_frame

\* run_streaming, second pull: the retrieval query raises; nothing catches it
CStreamRetrieveRaise(c) ==
    /\ c_pc[c] = "ev1"
    /\ \E d \in ConcErrDetails :
          CPut(c, [CCall(CL(c), "retriever.invoke") EXCEPT
                     !.propagated = Some(d), !.pulls = @ + 1])
    /\ c_pc' = [c_pc EXCEPT ![c] = "raised"]
    /\ UNCHANGED <<agent, graph, c_kind, c_wrote, c_used>>
    /\ UNCHANGED conc_frame

\* run_streaming, third pull: the generating event without content
CStreamGenerating(c) ==
    /\ c_pc[c] = "ev2"
    /\ CPut(c, CYield(CL(c), Event("generating", "", state_after_retrieval[c])))
    /\ c_pc' = [c_pc EXCEPT ![c] = "ev3"]
    /\ UNCHANGED <<agent, graph, c_kind, c_wrote, c_used>>
    /\ UNCHANGED conc_frame

\* run_streaming, fourth pull: the generator is created and run up to its
\* test of self._agent
CStreamStartGeneration(c) ==
    /\ c_pc[c] = "ev3"
    /\ CPut(c, [CL(c) EXCEPT !.pulls = @ + 1])
    /\ c_pc' = [c_pc EXCEPT ![c] = "test_agent"]
    /\ UNCHANGED <<agent, graph, c_kind, c_wrote, c_used>>
    /\ UNCHANGED conc_frame

\* generate_answer / generate_answer_streaming: if self._agent is None
CTestAgent(c) ==
    /\ c_pc[c] = "test_agent"
    /\ c_pc' = [c_pc EXCEPT ![c] = IF agent = "None" THEN "build_agent" ELSE "use_agent"]
    /\ UNCHANGED <<agent, graph, c_kind, c_wrote, c_used>>
    /\ UNCHANGED <<conc_locals, conc_frame>>

\* self._build_agent()
CBuildAgent(c) ==
    /\ c_pc[c] = "build_agent"
    /\ agent' = AgentAfterBuild(agent)
    /\ c_wrote' = [c_wrote EXCEPT !.agent = c]
    /\ c_used' = [c_used EXCEPT ![c].built = @ \cup {"agent"}]
    /\ c_pc' = [c_pc EXCEPT ![c] = "use_agent"]
    /\ UNCHANGED <<graph, c_kind>>
    /\ UNCHANGED <<conc_locals, conc_frame>>

\* the call is made on the agent the field holds now.  run:
\* self._agent.invoke(...) returns r and generate_answer returns its state;
\* run_streaming: self._agent.stream(...) is called and iterated
CUseAgent(c) ==
    /\ c_pc[c] = "use_agent"
    /\ c_used' = [c_used EXCEPT ![c].agent = c_wrote.agent]
    /\ IF c_kind[c] = "run"
       THEN /\ \E r \in ConcInvokeResults :
                  CPut(c, [CCall(CL(c), "agent.invoke") EXCEPT
                             !.invoke_result = Some(r),
                             !.out = Some(GenerateAnswerTool(state_after_retrieval[c][1], r))])
            /\ c_pc' = [c_pc EXCEPT ![c] = "done"]
       ELSE /\ CPut(c, CCall(CL(c), "agent.stream"))
            /\ c_pc' = [c_pc EXCEPT ![c] = "streaming"]
    /\ UNCHANGED <<agent, graph, c_kind, c_wrote>>
    /\ UNCHANGED conc_frame

\* run: self._agent.invoke(...) raises; run propagates it
CRunRespondRaise(c) ==
    /\ c_kind[c] = "run"
    /\ c_pc[c] = "use_agent"
    /\ c_used' = [c_used EXCEPT ![c].agent = c_wrote.agent]
    /\ \E d \in ConcErrDetails :
          CPut(c, [CCall(CL(c), "agent.invoke") EXCEPT
                     !.failure = Some(d), !.propagated = Some(d)])
    /\ c_pc' = [c_pc EXCEPT ![c] = "raised"]
    /\ UNCHANGED <<agent, graph, c_kind, c_wrote>>
    /\ UNCHANGED conc_frame

\* full_answer of call c once its generator is resumed
CFull(c) == ToolResume(full_answer[c], received[c])

\* run_streaming: the reasoning loop's stream delivers one more event
CToolEvent(c) ==
    /\ c_pc[c] = "streaming"
    /\ Len(received[c]) < MaxConcEvents
    /\ \E e \in ConcToolEvents :
          CPut(c, CDeliver([CL(c) EXCEPT !.received = Append(@, e),
                                         !.full = ToolAccumulate(CFull(c), e)],
                           ToolYield(CFull(c), e), None))
    /\ UNCHANGED <<agent, graph, c_kind, c_pc, c_wrote, c_used>>
    /\ UNCHANGED conc_frame

\* run_streaming: the stream raises; the except branch yields the error fragment
CToolRaise(c) ==
    /\ c_pc[c] = "streaming"
    /\ \E d \in ConcErrDetails :
          CPut(c, CDeliver([CL(c) EXCEPT !.failure = Some(d),
                                         !.err = ErrorMsgTool(d),
                                         !.full = CFull(c)],
                           <<ErrorMsgTool(d)>>, None))
    /\ c_pc' = [c_pc EXCEPT ![c] = "error_yielded"]
    /\ UNCHANGED <<agent, graph, c_kind, c_wrote, c_used>>
    /\ UNCHANGED conc_frame

\* run_streaming: the stream ends with a non-empty full_answer: return
CToolEnd(c) ==
    /\ c_pc[c] = "streaming"
    /\ CFull(c) # ""
    /\ CPut(c, CDeliver([CL(c) EXCEPT !.full = CFull(c)], <<>>,
                        Some(FinalState(state_after_retrieval[c][1], CFull(c)))))
    /\ c_pc' = [c_pc EXCEPT ![c] = "done"]
    /\ UNCHANGED <<agent, graph, c_kind, c_wrote, c_used>>
    /\ UNCHANGED conc_frame

\* run_streaming: the stream ends with an empty full_answer: the fallback
\* reads self._agent again and invokes the agent it holds now, which
\* returns r
CToolFallback(c) ==
    /\ c_pc[c] = "streaming"
    /\ CFull(c) = ""
    /\ c_used' = [c_used EXCEPT ![c].fallback = c_wrote.agent]
    /\ \E r \in ConcInvokeResults :
          LET l == [CCall(CL(c), "agent.invoke") EXCEPT !.invoke_result = Some(r),
                                 !.full = FallbackAnswer(CFull(c), r)]
          IN  IF FallbackYield(CFull(c), r) # <<>>
              THEN /\ CPut(c, CDeliver(l, FallbackYield(CFull(c), r), None))
                   /\ c_pc' = [c_pc EXCEPT ![c] = "fallback_yielded"]
              ELSE /\ CPut(c, CDeliver(l, <<>>,
                              Some(FinalState(state_after_retrieval[c][1], l.full))))
                   /\ c_pc' = [c_pc EXCEPT ![c] = "done"]
    /\ UNCHANGED <<agent, graph, c_kind, c_wrote>>
    /\ UNCHANGED conc_frame

\* run_streaming: the fallback invoke raises; the except branch yields the
\* error fragment
CToolFallbackRaise(c) ==
    /\ c_pc[c] = "streaming"
    /\ CFull(c) = ""
    /\ c_used' = [c_used EXCEPT ![c].fallback = c_wrote.agent]
    /\ \E d \in ConcErrDetails :
          CPut(c, CDeliver([CCall(CL(c), "agent.invoke") EXCEPT !.failure = Some(d),
                                         !.err = ErrorMsgTool(d)],
                           <<ErrorMsgTool(d)>>, None))
    /\ c_pc' = [c_pc EXCEPT ![c] = "error_yielded"]
    /\ UNCHANGED <<agent, graph, c_kind, c_wrote>>
    /\ UNCHANGED conc_frame

\* run_streaming: resumed after the fallback's fragment: return
CToolAfterFallback(c) ==
    /\ c_pc[c] = "fallback_yielded"
    /\ CPut(c, CDeliver(CL(c), <<>>,
                        Some(FinalState(state_after_retrieval[c][1], full_answer[c]))))
    /\ c_pc' = [c_pc EXCEPT ![c] = "done"]
    /\ UNCHANGED <<agent, graph, c_kind, c_wrote, c_used>>
    /\ UNCHANGED conc_frame

\* run_streaming: resumed after the error fragment: return the
\* error-bearing state
CToolAfterError(c) ==
    /\ c_pc[c] = "error_yielded"
    /\ CPut(c, CDeliver(CL(c), <<>>,
                        Some(FinalState(state_after_retrieval[c][1],
                                        ToolAnswerAfterError(full_answer[c], error_msg[c])))))
    /\ c_pc' = [c_pc EXCEPT ![c] = "done"]
    /\ UNCHANGED <<agent, graph, c_kind, c_wrote, c_used>>
    /\ UNCHANGED conc_frame

ConcInit ==
    /\ entry = "concurrent"
    /\ question \in ConcQuestions
    /\ rs_pc = "unused"
    /\ rs_final_state = None
    /\ gen_pc = "none"
    /\ gen_state = None
    /\ blk_in = None
    /\ tool_docs = None
    /\ tool_result = None
    /\ calls = [c \in CallIds |-> <<>>]
    /\ agent = "None"
    /\ graph = "None"
    /\ events = [c \in CallIds |-> <<>>]
    /\ pulls = [c \in CallIds |-> 0]
    /\ state_after_retrieval = [c \in CallIds |-> None]
    /\ received = [c \in CallIds |-> <<>>]
    /\ full_answer = [c \in CallIds |-> ""]
    /\ error_msg = [c \in CallIds |-> ""]
    /\ yielded = [c \in CallIds |-> <<>>]
    /\ returned = [c \in CallIds |-> <<>>]
    /\ failure = [c \in CallIds |-> None]
    /\ invoke_result = [c \in CallIds |-> None]
    /\ propagated = [c \in CallIds |-> None]
    /\ blk_out = [c \in CallIds |-> None]
    /\ c_kind \in [CallIds -> {"run", "run_streaming"}]
    /\ c_pc = [c \in CallIds |-> "start"]
    /\ c_wrote = [agent |-> 0, graph |-> 0]
    /\ c_used = [c \in CallIds |-> [agent |-> 0, fallback |-> 0, graph |-> 0, built |-> {}]]

ConcTestGraph == \E c \in CallIds : CTestGraph(c)

ConcBuildGraph == \E c \in CallIds : CBuildGraph(c)

ConcGraphInvoke == \E c \in CallIds : CGraphInvoke(c)

ConcGraphInvokeRaise == \E c \in CallIds : CGraphInvokeRaise(c)

ConcStreamFirst == \E c \in CallIds : CStreamFirst(c)

ConcStreamRetrieve == \E c \in CallIds : CStreamRetrieve(c)

ConcStreamRetrieveRaise == \E c \in CallIds : CStreamRetrieveRaise(c)

ConcStreamGenerating == \E c \in CallIds : CStreamGenerating(c)

ConcStreamStartGeneration == \E c \in CallIds : CStreamStartGeneration(c)

ConcTestAgent == \E c \in CallIds : CTestAgent(c)

ConcBuildAgent == \E c \in CallIds : CBuildAgent(c)

ConcUseAgent == \E c \in CallIds : CUseAgent(c)

ConcRunRespondRaise == \E c \in CallIds : CRunRespondRaise(c)

ConcToolEvent == \E c \in CallIds : CToolEvent(c)

ConcToolRaise == \E c \in CallIds : CToolRaise(c)

ConcToolEnd == \E c \in CallIds : CToolEnd(c)

ConcToolFallback == \E c \in CallIds : CToolFallback(c)

ConcToolFallbackRaise == \E c \in CallIds : CToolFallbackRaise(c)

ConcToolAfterFallback == \E c \in CallIds : CToolAfterFallback(c)

ConcToolAfterError == \E c \in CallIds : CToolAfterError(c)

ConcNext ==
    \/ ConcTestGraph
    \/ ConcBuildGraph
    \/ ConcGraphInvoke
    \/ ConcGraphInvokeRaise
    \/ ConcStreamFirst
    \/ ConcStreamRetrieve
    \/ ConcStreamRetrieveRaise
    \/ ConcStreamGenerating
    \/ ConcStreamStartGeneration
    \/ ConcTestAgent
    \/ ConcBuildAgent
    \/ ConcUseAgent
    \/ ConcRunRespondRaise
    \/ ConcToolEvent
    \/ ConcToolRaise
    \/ ConcToolEnd
    \/ ConcToolFallback
    \/ ConcToolFallbackRaise
    \/ ConcToolAfterFallback
    \/ ConcToolAfterError

ConcSpec == ConcInit /\ [][ConcNext]_vars

----------------------------------------------------------------------------
(* Vocabulary of the properties *)

IsPrefix(a, b) == Len(a) <= Len(b) /\ SubSeq(b, 1, Len(a)) = a

RECURSIVE ConcatAll(_)
ConcatAll(ss) == IF ss = <<>> THEN "" ELSE Head(ss) \o ConcatAll(Tail(ss))

\* the fragments f1..fn of a simple-mode backend stream
SimpleFragments(recv) ==
    LET taken == SelectSeq(recv, ChunkTaken)
    IN  [i \in 1..Len(taken) |-> ChunkFragment(taken[i])]

\* the contents of the reasoning-loop events whose last message has
\* non-empty content
ToolContents(recv) ==
    LET taken == SelectSeq(recv, EventTaken)
    IN  [i \in 1..Len(taken) |-> Last(taken[i].messages).content]

ToolEntry == entry \in {"tool", "run_streaming"}

Invokes == Len(SelectSeq(calls, LAMBDA c : c.op = "agent.invoke"))

GeneratingIndices == {i \in 1..Len(events) : events[i].step = "generating"}

CompleteIndices == {i \in 1..Len(events) : events[i].step = "complete"}

----------------------------------------------------------------------------
(* Properties *)

\* C1: when run_streaming is exhausted after a successful retrieval, its
\* events are, in order: retrieving (state None), retrieving "Found N
\* relevant documents" with the post-retrieval state, generating "", one
\* generating event per fragment of the generator in the same order, and
\* then the complete event carrying the generator's final state.
C1_EventOrder ==
    (entry = "run_streaming" /\ rs_pc = "done") =>
        LET sar == state_after_retrieval[1]
        IN  events =
              << Event("retrieving", "Retrieving relevant documents...", None),
                 Event("retrieving", FoundMsg(sar.retrieved_docs), Some(sar)),
                 Event("generating", "", Some(sar)) >>
              \o [i \in 1..Len(yielded) |-> Event("generating", yielded[i], Some(sar))]
              \o << Event("complete", returned[1].answer[1], Some(returned[1])) >>

\* C2: once the generator has terminated with a final state, run_streaming
\* has emitted exactly one complete event, it is the last event, its content
\* is the final state's answer and its state is that final state.
C2_CompleteIsLast ==
    (entry = "run_streaming" /\ gen_pc = "done") =>
        /\ Cardinality(CompleteIndices) = 1
        /\ Last(events) = Event("complete", returned[1].answer[1], Some(returned[1]))

\* C3: a generator call that is consumed to exhaustion terminates, and at
\* termination it has returned exactly one final state, whose answer is set
\* and whose question and retrieved_docs are those of the input state;
\* before termination it has returned none.
C3_AlwaysTerminal ==
    /\ [](Len(returned) = IF gen_pc = "done" THEN 1 ELSE 0)
    /\ [](gen_pc = "done" =>
            /\ returned[1].answer # None
            /\ returned[1].question = gen_state[1].question
            /\ returned[1].retrieved_docs = gen_state[1].retrieved_docs)
    /\ (gen_pc = "idle" ~> gen_pc = "done")

\* a generator finished after the backend raised mid-stream
C3_Witness ==
    /\ gen_pc = "done"
    /\ failure # None
    /\ Len(yielded) >= 2
    /\ returned[1].answer # None

\* C4: simple mode without backend failure: the k-th yielded string is the
\* concatenation f1+...+fk of the fragments received so far, and the final
\* state's answer is f1+...+fn.
C4_Cumulative ==
    (entry = "simple" /\ failure = None) =>
        LET fs == SimpleFragments(received)
        IN  /\ yielded = [k \in 1..Len(fs) |-> ConcatAll(SubSeq(fs, 1, k))]
            /\ gen_pc = "done" => returned[1].answer = Some(ConcatAll(fs))

\* fragments "He", "llo" gave exactly "He", "Hello"
C4_Witness ==
    /\ entry = "simple"
    /\ gen_pc = "done"
    /\ SimpleFragments(received) = <<"He", "llo">>
    /\ yielded = <<"He", "Hello">>
    /\ returned[1].answer = Some("Hello")

\* C5 as stated: simple mode, every run, failing runs included: every
\* yielded string has the previously yielded string as a prefix.
C5_MonotoneEveryRun ==
    entry = "simple" =>
        \A i \in 2..Len(yielded) : IsPrefix(yielded[i-1], yielded[i])

\* C5 amended: simple mode: every yielded string other than the error
\* fragment of a backend failure has the previously yielded string as a
\* prefix.
C5_MonotoneUpToError ==
    entry = "simple" =>
        \A i \in 2..Len(yielded) :
            (failure = None \/ i < Len(yielded)) => IsPrefix(yielded[i-1], yielded[i])

\* two growing strings were seen, then the error fragment, which extends neither
C5_Witness ==
    /\ entry = "simple"
    /\ failure # None
    /\ Len(yielded) = 3
    /\ yielded[1] # yielded[2]
    /\ IsPrefix(yielded[1], yielded[2])
    /\ ~IsPrefix(yielded[2], yielded[3])

\* C6: simple mode, backend failure before the first or after k fragments:
\* exactly one further fragment is yielded, "Error during streaming: " plus
\* the details, nothing follows it, no exception reaches the caller, and
\* the final state's answer is that error text.
C6_SimpleError ==
    (entry = "simple" /\ failure # None) =>
        LET err == "Error during streaming: " \o failure[1]
        IN  /\ Len(yielded) = Len(SimpleFragments(received)) + 1
            /\ Last(yielded) = err
            /\ propagated = None
            /\ gen_pc \in {"error_yielded", "done"}
            /\ gen_pc = "done" => returned = <<RAGState(gen_state[1].question,
                                                        gen_state[1].retrieved_docs,
                                                        Some(err))>>

\* the backend raised after fragments were yielded and the generator finished
C6_Witness ==
    /\ entry = "simple"
    /\ failure = Some("boom")
    /\ Len(yielded) = 3
    /\ gen_pc = "done"
    /\ returned[1].answer = Some("Error during streaming: boom")

\* the generator is suspended at the yield of a message that has content
\* and no finish marker
AtPartialYield ==
    /\ gen_pc = "streaming"
    /\ received # <<>>
    /\ LET e == received[Len(received)]
       IN  /\ e.has_messages
           /\ e.messages # <<>>
           /\ e.messages[Len(e.messages)].has_content
           /\ e.messages[Len(e.messages)].content # ""
           /\ ~(/\ e.messages[Len(e.messages)].has_meta
                /\ e.messages[Len(e.messages)].finish_reason # "")

\* C7: tool-augmented mode: each event whose last message has non-empty
\* content c yields exactly the fragment c and makes c the accumulated
\* answer, replacing the previous value (for a message without finish
\* marker the assignment follows the yield, so while the generator is
\* suspended there the accumulated answer is still the previous content);
\* a stream that ends without failure after such events gives the content
\* of the last one as the final answer.
C7_Overwrite ==
    ToolEntry =>
        LET cs == ToolContents(received)
        IN  /\ Len(yielded) >= Len(cs)
            /\ SubSeq(yielded, 1, Len(cs)) = cs
            /\ (gen_pc \in {"streaming", "error_yielded", "done"} /\ cs # <<>>) =>
                   full_answer = IF ~AtPartialYield THEN Last(cs)
                                 ELSE IF Len(cs) = 1 THEN ""
                                 ELSE cs[Len(cs) - 1]
            /\ (gen_pc = "done" /\ failure = None /\ cs # <<>>) =>
                   /\ yielded = cs
                   /\ returned[1].answer = Some(Last(cs))

\* a partial event and a different final event were streamed; the last wins
C7_Witness ==
    /\ ToolEntry
    /\ gen_pc = "done"
    /\ failure = None
    /\ ToolContents(received) = <<"A", "AB", "B">>
    /\ returned[1].answer = Some("B")

\* C8: tool-augmented mode: a stream that ended without non-empty content
\* is followed by exactly one blocking invoke, whose final answer is yielded
\* as a single fragment and carried by the final state; after non-empty
\* content no invoke is made.
C8_Fallback ==
    ToolEntry =>
        LET cs == ToolContents(received)
        IN  /\ (gen_pc = "done" /\ failure = None /\ cs = <<>>) =>
                   /\ Invokes = 1
                   /\ Len(yielded) = 1
                   /\ returned[1].answer = Some(yielded[1])
            /\ cs # <<>> => Invokes = 0

\* C9: tool-augmented mode: after an exception of the stream or of the
\* fallback invoke, exactly one further fragment is yielded, "Error
\* generating answer: " plus the details, nothing follows it, no exception
\* reaches the caller, and the final state carries that error text with the
\* input state's question and retrieved_docs.
C9_ToolError ==
    (ToolEntry /\ failure # None) =>
        LET err == "Error generating answer: " \o failure[1]
        IN  /\ Len(yielded) = Len(ToolContents(received)) + 1
            /\ Last(yielded) = err
            /\ propagated = None
            /\ gen_pc \in {"error_yielded", "done"}
            /\ gen_pc = "done" => returned = <<RAGState(gen_state[1].question,
                                                        gen_state[1].retrieved_docs,
                                                        Some(err))>>

\* the fallback invoke raised and the generator finished
C9_Witness ==
    /\ ToolEntry
    /\ Invokes = 1
    /\ failure = Some("boom")
    /\ gen_pc = "done"
    /\ returned[1].answer = Some("Error generating answer: boom")

\* C10: every generating event of run_streaming carries the post-retrieval
\* state (the question as given, the docs of the second event, no answer),
\* and an event whose state has an answer is a complete event.
C10_StatePinned ==
    entry = "run_streaming" =>
        \A i \in 1..Len(events) :
            /\ events[i].step = "generating" =>
                   /\ events[i].state = state_after_retrieval
                   /\ events[i].state = events[2].state
                   /\ events[i].state[1].question = question
                   /\ events[i].state[1].answer = None
            /\ (events[i].state # None /\ events[i].state[1].answer # None) =>
                   events[i].step = "complete"

\* two fragments were re-wrapped after the empty generating event
C10_Witness ==
    /\ entry = "run_streaming"
    /\ Cardinality(GeneratingIndices) >= 3
    /\ Last(events).step = "generating"
    /\ Last(events).content # ""

\* C11: no stage changes its state argument: once a stage or a generator
\* has its argument, that argument stays what it was through every call made
\* on it; each state returned has the argument's question, and the states
\* returned by the generation stages have its retrieved_docs.
C11_Pure ==
    /\ [][/\ blk_in # None => blk_in' = blk_in
          /\ gen_state # None => gen_state' = gen_state]_vars
    /\ [](entry = "stages" /\ blk_out # None /\ propagated = None =>
            /\ blk_out[1].question = blk_in[1].question
            /\ Last(calls).op # "retriever.invoke" =>
                   blk_out[1].retrieved_docs = blk_in[1].retrieved_docs)
    /\ [](entry = "run" /\ rs_pc = "done" =>
            /\ blk_out[1].question = question
            /\ blk_out[1].retrieved_docs = state_after_retrieval[1].retrieved_docs
            /\ state_after_retrieval[1].answer = None)
    /\ [](gen_pc = "done" =>
            /\ returned[1].question = gen_state[1].question
            /\ returned[1].retrieved_docs = gen_state[1].retrieved_docs)

\* two stages were called on a state without an answer; the second returned
\* a state with an answer and the argument still has none
C11_Witness ==
    /\ entry = "stages"
    /\ Len(calls) = 2
    /\ propagated = None
    /\ blk_in[1].answer = None
    /\ blk_in[1].retrieved_docs # <<>>
    /\ blk_out[1].answer # None

\* C12 as stated: no field of the orchestrator or of its RAGNodes is written
\* by one call and read by another: the graph and the agent a call uses are
\* its own.
C12_NothingShared ==
    \A c \in CallIds :
        /\ c_used[c].agent \in {0, c}
        /\ c_used[c].fallback \in {0, c}
        /\ c_used[c].graph \in {0, c}

\* C12 amended: the lazily initialised fields are shared: written by the
\* calls that found them None, read by every call, by a streaming call once
\* more for its fallback.  A field once set stays set, only a call that
\* built it has written it, and a call that has come to use a field uses a
\* set one.
C12_SharedLazyFields ==
    /\ c_wrote.agent = 0 <=> agent = "None"
    /\ c_wrote.graph = 0 <=> graph = "None"
    /\ c_wrote.agent # 0 => "agent" \in c_used[c_wrote.agent].built
    /\ c_wrote.graph # 0 => "graph" \in c_used[c_wrote.graph].built
    /\ \A c \in CallIds :
          /\ c_pc[c] \in {"streaming", "fallback_yielded", "error_yielded", "done"}
                => c_used[c].agent \in CallIds
          /\ c_used[c].fallback # 0 =>
                /\ c_kind[c] = "run_streaming"
                /\ c_used[c].agent \in CallIds
                /\ "agent" \in c_used[c_used[c].fallback].built
          /\ c_pc[c] \in {"test_agent", "build_agent", "use_agent", "done"}
                /\ c_kind[c] = "run" => c_used[c].graph \in CallIds
          /\ c_pc[c] = "use_agent" => agent = "built"
          /\ c_pc[c] = "graph_invoke" => graph = "built"

\* both calls found the agent unset and built it; the first streamed on the
\* agent it built and made its fallback invoke on the agent the second
\* assigned
C12_Witness ==
    /\ \A c \in CallIds : "agent" \in c_used[c].built
    /\ c_pc[1] = "done"
    /\ c_used[1].agent = 1
    /\ c_used[1].fallback = 2

\* the generation calls made so far (backend stream, reasoning-loop stream
\* or invoke)
GenerationCalls == SelectSeq(calls, LAMBDA c : c.op # "retriever.invoke")

RetrievalCalls == SelectSeq(calls, LAMBDA c : c.op = "retriever.invoke")

\* C13: run_streaming is pull-driven: no retrieval query is made before the
\* caller's second pull and no generation call before its fourth, and a
\* step in which the suspended sequence is not pulled makes no collaborator
\* call.
C13_PullDriven ==
    /\ [](entry = "run_streaming" =>
            /\ pulls < 2 => calls = <<>>
            /\ pulls < 4 => GenerationCalls = <<>>
            /\ pulls <= Len(events) + 1)
    /\ [][(entry = "run_streaming" /\ Suspended /\ pulls' = pulls) => calls' = calls]_vars

\* the caller has pulled three events and the sequence is suspended: only
\* the retrieval query has been made
C13_Witness ==
    /\ entry = "run_streaming"
    /\ pulls = 3
    /\ Len(events) = 3
    /\ Suspended
    /\ Len(calls) = 1
    /\ GenerationCalls = <<>>

\* C14: in run and run_streaming the first collaborator call is the one
\* retrieval query, made with the caller's question; the generation calls
\* come after it has returned; in run_streaming it is made after the first
\* event and before the second.
C14_RetrievalFirst ==
    entry \in {"run", "run_streaming"} =>
        /\ Len(RetrievalCalls) <= 1
        /\ calls # <<>> => calls[1] = Call("retriever.invoke", question)
        /\ GenerationCalls # <<>> =>
               /\ state_after_retrieval # None
               /\ Len(RetrievalCalls) = 1
        /\ entry = "run_streaming" =>
               /\ calls # <<>> => Len(events) >= 1
               /\ Len(events) >= 2 => Len(RetrievalCalls) = 1
        /\ rs_pc = "done" => Len(RetrievalCalls) = 1 /\ GenerationCalls # <<>>

\* a run_streaming call that made its query and then two generation calls
C14_Witness ==
    /\ entry = "run_streaming"
    /\ rs_pc = "done"
    /\ Len(RetrievalCalls) = 1
    /\ Len(GenerationCalls) = 2

\* C15: when the retrieval query of run_streaming raises, the exception
\* reaches the caller on the second pull, the first retrieving event is the
\* only event, no generation call has been made and the generator was never
\* created.
C15_RetrievalFailure ==
    (entry = "run_streaming" /\ rs_pc = "raised") =>
        /\ propagated # None
        /\ pulls = 2
        /\ events = << Event("retrieving", "Retrieving relevant documents...", None) >>
        /\ calls = << Call("retriever.invoke", question) >>
        /\ gen_pc = "none"
        /\ yielded = <<>>
        /\ returned = <<>>

\* the retrieval query raised
C15_Witness ==
    /\ entry = "run_streaming"
    /\ rs_pc = "raised"
    /\ propagated = Some("boom")
    /\ Len(events) = 1

\* C16: after a collaborator call has failed no collaborator call is made;
\* one invocation makes at most two generation calls, and two only as the
\* reasoning-loop stream followed by the fallback invoke after a stream
\* without non-empty content.
C16_NoRetries ==
    /\ [][(failure # None \/ propagated # None) => calls' = calls]_vars
    /\ [](entry \in {"simple", "tool", "run_streaming", "run"} =>
            /\ Len(GenerationCalls) <= 2
            /\ Len(GenerationCalls) = 2 =>
                   /\ GenerationCalls[1].op = "agent.stream"
                   /\ GenerationCalls[2].op = "agent.invoke"
                   /\ ToolContents(received) = <<>>)

\* the reasoning-loop stream raised before any content: the generator
\* finished without the fallback invoke
C16_Witness ==
    /\ entry = "tool"
    /\ gen_pc = "done"
    /\ failure # None
    /\ ToolContents(received) = <<>>
    /\ calls = << Call("agent.stream", question) >>

\* the blocking calls of a generation backend made so far
BlockingCalls == SelectSeq(calls, LAMBDA c : c.op \in {"llm.invoke", "agent.invoke"})

\* the answer the blocking tool-augmented stage owes for the result r
SentinelOrContent(r) ==
    IF \/ ~r.has_messages
       \/ r.messages = <<>>
       \/ ~r.messages[Len(r.messages)].has_content
       \/ r.messages[Len(r.messages)].content = ""
    THEN "Could not generate answer."
    ELSE r.messages[Len(r.messages)].content

\* C17: blocking tool-augmented generate_answer returns the sentinel when
\* the reasoning loop returned no messages or a last message with absent or
\* empty content, and the last message's content otherwise; question and
\* retrieved_docs are carried over and the reasoning loop is invoked once.
C17_BlockingTool ==
    /\ (entry = "stages" /\ propagated = None /\ calls # <<>>
           /\ Last(calls).op = "agent.invoke") =>
          /\ blk_out = Some(RAGState(blk_in[1].question, blk_in[1].retrieved_docs,
                                     Some(SentinelOrContent(invoke_result[1]))))
          /\ Last(calls) = Call("agent.invoke", blk_in[1].question)
          /\ Len(calls) = 1 => Invokes = 1
    /\ (entry = "run" /\ rs_pc = "done") =>
          /\ blk_out = Some(RAGState(question, state_after_retrieval[1].retrieved_docs,
                                     Some(SentinelOrContent(invoke_result[1]))))
          /\ Invokes = 1

\* the reasoning loop returned a last message with empty content and the
\* stage answered with the sentinel
C17_Witness ==
    /\ entry = "stages"
    /\ Len(calls) = 1
    /\ invoke_result = Some(Dict(TRUE, <<Msg(TRUE, "", TRUE, "stop")>>))
    /\ blk_out # None
    /\ blk_out[1].answer = Some("Could not generate answer.")
    /\ blk_out[1].retrieved_docs # <<>>

\* the stream of a finished generator gave no non-empty fragment
StreamWithoutOutput ==
    IF entry = "simple"
    THEN \A i \in 1..Len(received) :
            ChunkTaken(received[i]) => ChunkFragment(received[i]) = ""
    ELSE ToolContents(received) = <<>>

\* C18: a streaming generation call, in either mode, whose stream ended
\* without failure and without any non-empty fragment makes exactly one
\* blocking invocation of the backend, and the result of that invocation
\* (the sentinel when it has no messages or no usable content) is the final
\* state's answer.
C18_FallbackInEveryMode ==
    (/\ entry \in {"simple", "tool", "run_streaming"}
     /\ gen_pc = "done"
     /\ failure = None
     /\ StreamWithoutOutput) =>
        /\ Len(BlockingCalls) = 1
        /\ invoke_result # None
        /\ returned[1].answer = Some(SentinelOrContent(invoke_result[1]))

\* C20: a generator that yielded at least one fragment returns a final
\* state whose answer is the last fragment yielded, on the success, error
\* and fallback paths of both modes; in run_streaming the last generating
\* event carries that answer.
C20_AnswerIsLastFragment ==
    (gen_pc = "done" /\ yielded # <<>>) =>
        /\ returned[1].answer = Some(Last(yielded))
        /\ entry = "run_streaming" =>
              /\ GeneratingIndices # {}
              /\ \A i \in GeneratingIndices :
                    (\A j \in GeneratingIndices : j <= i) =>
                        Some(events[i].content) = returned[1].answer

\* a run_streaming call whose generator yielded content and then the
\* error fragment
C20_Witness ==
    /\ gen_pc = "done"
    /\ entry = "run_streaming"
    /\ Len(yielded) >= 2
    /\ failure # None
    /\ returned[1].answer = Some(Last(yielded))

\* the i-th passage as the retrieval-search tool owes it
RECURSIVE ToolText(_, _)
ToolText(docs, k) ==
    LET d == docs[k]
        title == IF d.has_metadata /\ d.title # "" THEN d.title
                 ELSE IF d.has_metadata /\ d.source # "" THEN d.source
                 ELSE "doc_" \o ToString(k)
        passage == "[" \o ToString(k) \o "] " \o title \o "\n" \o d.page_content
    IN  IF k = 1 THEN passage ELSE ToolText(docs, k - 1) \o "\n\n" \o passage

\* C19: the retrieval-search tool makes one retrieval query; it returns
\* 'No documents found.' exactly when the query gave no passage, otherwise
\* the first 8 passages at most, in order, the i-th as '[i] title', a
\* newline and the body (title, else source, else doc_i), joined by blank
\* lines; the value is never empty.
C19_RetrieverTool ==
    (entry = "retriever_tool" /\ tool_result # None) =>
        /\ calls = << Call("retriever.invoke", question) >>
        /\ tool_result[1] \in STRING
        /\ tool_result[1] # ""
        /\ (tool_result[1] = "No documents found.") <=> (tool_docs[1] = <<>>)
        /\ tool_docs[1] # <<>> =>
              tool_result[1] =
                 ToolText(tool_docs[1],
                          IF Len(tool_docs[1]) < 8 THEN Len(tool_docs[1]) ELSE 8)

\* the retriever gave more than 8 passages and the tool answered
C19_Witness ==
    /\ entry = "retriever_tool"
    /\ tool_docs # None
    /\ Len(tool_docs[1]) > 8
    /\ tool_result # None

\* the text a simple-mode chunk carries: its content, else its text, else
\* the chunk itself when it is a bare string
ChunkText(c) ==
    IF c.has_content /\ c.content # "" THEN c.content
    ELSE IF c.has_text /\ c.text # "" THEN c.text
    ELSE IF c.is_str THEN c.str
    ELSE ""

\* the text a tool-mode event carries: the content of the last message of
\* its 'messages' list
EventText(e) ==
    IF e.has_messages /\ e.messages # <<>> /\ e.messages[Len(e.messages)].has_content
    THEN e.messages[Len(e.messages)].content
    ELSE ""

\* the backend item received in this step, when one was received
ItemReceived == Len(received') = Len(received) + 1

ItemText ==
    IF entry = "simple" THEN ChunkText(received'[Len(received')])
    ELSE EventText(received'[Len(received')])

\* C21: a backend item that carries no text yields no fragment and leaves
\* the accumulated answer unchanged (in tool mode: as the resumed generator
\* holds it), in both streaming modes; without a
\* backend failure and without the fallback the number of fragments
\* yielded is the number of items that carry text; no fragment yielded on
\* the non-fallback path is the empty string.
C21_EmptyItemsSkipped ==
    /\ [][(ItemReceived /\ ItemText = "") =>
              /\ full_answer' = IF entry = "simple" THEN full_answer
                                ELSE ToolResume(full_answer, received)
              /\ yielded' = yielded]_vars
    /\ []((entry = "simple" /\ failure = None) =>
              Len(yielded) =
                 Len(SelectSeq(received, LAMBDA c : ChunkText(c) # "")))
    /\ []((ToolEntry /\ failure = None /\ invoke_result = None) =>
              Len(yielded) =
                 Len(SelectSeq(received, LAMBDA e : EventText(e) # "")))
    /\ []((entry = "simple" \/ (ToolEntry /\ invoke_result = None)) =>
              \A i \in 1..Len(yielded) : yielded[i] # "")

====
